---- MODULE Spec2Model ----
(***************************************************************************)
(* A model of the two engines of the repository:                           *)
(*   - ChainMonitor (the monitor source, src/unnamed/part_000): the block  *)
(*     poll loop, the bytecode retry pipeline, start() and stop();         *)
(*   - ValidationService (src/services/validation/src/ValidationService.ts)*)
(*     checkFiles and the functions it calls.                              *)
(* Times are kept in fixed point: one unit is 1/PauseUnit millisecond.     *)
(***************************************************************************)
EXTENDS Integers, Sequences, FiniteSets, Bags, TLC

(***************************************************************************)
(* Bounds of the model.                                                    *)
(***************************************************************************)
\* getBlock and getCode requests one monitor issues before the model stops
\* following it
MaxRequests == 4
\* transactions in one block
MaxTxs == 2
\* fixed-point resolution of a pause: units per millisecond
PauseUnit == 1000

(***************************************************************************)
(* Program constants of the monitor.                                       *)
(***************************************************************************)
\* BLOCK_PAUSE_FACTOR = 1.1, kept as the fraction FactorNum / FactorDen
FactorNum == 11
FactorDen == 10
BLOCK_PAUSE_UPPER_LIMIT == 30000
BLOCK_PAUSE_LOWER_LIMIT == 500
DEFAULT_GET_BLOCK_PAUSE == 10000
INITIAL_GET_BYTECODE_TRIES == 3

\* MONITOR_START_<chainId> is unset
NoOverride == -1

\* the values of GET_BLOCK_PAUSE the environment may configure (milliseconds);
\* 0 and unset both give the default
ConfiguredPauses == {0, 520, 60000}

\* the values of MONITOR_START_<chainId>
ConfiguredStarts == {NoOverride, 0}

\* this.web3urls: the RPC endpoints the monitor is constructed with
web3urls == <<"rpc1", "rpc2">>

\* the block numbers getBlockNumber may report to start()
HeadNumbers == {0, 1}


VARIABLES
  \* ---- ChainMonitor
  running,        \* this.running
  getBlockPause,  \* this.getBlockPause, in fixed point
  web3provider,   \* index of the latched endpoint, 0 when none
  startPc,        \* position of start(): "idle", "probing", "done"
  probeIx,        \* the endpoint start() probes next
  rawStartBlock,  \* process.env.MONITOR_START_<chainId>
  startBlock,     \* the argument of the first processBlock, -1 before it
  pollTimers,     \* bag of block numbers: pending setTimeout(processBlock)
  blockFetches,   \* bag of block numbers: getBlock requests in flight
  retryTimers,    \* bag of [addr, retries]: pending setTimeout(processBytecode)
  codeFetches,    \* bag of [addr, retriesLeft]: getCode requests in flight
  assembling,     \* bag of addresses handed to sourceFetcher.assemble
  injected,       \* bag of addresses given to verificationService.inject
  processed,      \* history: block numbers handled without a raise, in order
  polls,          \* history: number of getBlock requests issued
  launches,       \* history: processBytecode calls made by processBlock
  codeRequests,   \* history: number of getCode requests issued
  lastDelay,      \* history: the delay of the latest setTimeout call, -1 if none
  stoppedFires,   \* history: the kinds of timer that fired while running was false
  \* ---- ValidationService
  vCase,          \* history: how the files of the call were chosen
  vFiles,         \* the files argument of the latest checkFiles call
  vResult,        \* what that call threw or returned
  vUse,           \* the useAllSources call made after it: arguments and outcome
  \* ---- the pause of a monitor along a run of null blocks and one block
  adaptInitial,   \* getBlockPause as the constructor left it
  adaptNulls,     \* number of null blocks received in a row since
  adaptPause,     \* getBlockPause now
  adaptPrevious   \* getBlockPause before the block that ended the run, -1 in the run

monVars == <<running, getBlockPause, web3provider, startPc, probeIx,
             rawStartBlock, startBlock, pollTimers, blockFetches, retryTimers,
             codeFetches, assembling, injected, processed, polls, launches,
             codeRequests, lastDelay, stoppedFires>>

valVars == <<vCase, vFiles, vResult, vUse>>

adaptVars == <<adaptInitial, adaptNulls, adaptPause, adaptPrevious>>

vars == <<monVars, valVars, adaptVars>>

(***************************************************************************)
(* ValidationService: texts, the hash and the variations                   *)
(***************************************************************************)
\* the longest source text of a generated input
MaxLen == 3

\* the characters of a source text: a letter, "\r", "\n" and a blank
Chars == {"a", "CR", "LF", "SP"}

TextsUpTo(n) == UNION {[1..k -> Chars] : k \in 0..n}
Texts == TextsUpTo(MaxLen)

\* the characters String.prototype.trimEnd removes
IsWhitespace(c) == c \in {"CR", "LF", "SP"}

\* content.replace(/\r?\n/g, "\r\n")
RECURSIVE ToCRLF(_)
ToCRLF(s) ==
  IF s = <<>> THEN <<>>
  ELSE IF Len(s) >= 2 /\ s[1] = "CR" /\ s[2] = "LF"
       THEN <<"CR", "LF">> \o ToCRLF(SubSeq(s, 3, Len(s)))
  ELSE IF s[1] = "LF" THEN <<"CR", "LF">> \o ToCRLF(Tail(s))
  ELSE <<s[1]>> \o ToCRLF(Tail(s))

\* content.replace(/\r\n/g, "\n")
RECURSIVE ToLF(_)
ToLF(s) ==
  IF s = <<>> THEN <<>>
  ELSE IF Len(s) >= 2 /\ s[1] = "CR" /\ s[2] = "LF"
       THEN <<"LF">> \o ToLF(SubSeq(s, 3, Len(s)))
  ELSE <<s[1]>> \o ToLF(Tail(s))

\* content.trimEnd()
RECURSIVE TrimEnd(_)
TrimEnd(s) ==
  IF s = <<>> THEN <<>>
  ELSE IF IsWhitespace(s[Len(s)]) THEN TrimEnd(SubSeq(s, 1, Len(s) - 1))
  ELSE s

NumContentVariators == 3
NumEndingVariators == 6

\* a CONTENT_VARIATORS that lacks the CRLF -> LF variator
CONTENT_VARIATORS_NoToLF(i, content) ==
  CASE i = 1 -> content
    [] i = 2 -> ToCRLF(content)
    [] i = 3 -> content

\* CONTENT_VARIATORS[i - 1](content)
CONTENT_VARIATORS(i, content) ==
  CASE i = 1 -> content
    [] i = 2 -> ToCRLF(content)
    [] i = 3 -> ToLF(content)

\* ENDING_VARIATORS[j - 1](content)
ENDING_VARIATORS(j, content) ==
  CASE j = 1 -> content
    [] j = 2 -> TrimEnd(content)
    [] j = 3 -> TrimEnd(content) \o <<"LF">>
    [] j = 4 -> TrimEnd(content) \o <<"CR", "LF">>
    [] j = 5 -> content \o <<"LF">>
    [] j = 6 -> content \o <<"CR", "LF">>

\* Web3.utils.keccak256: a digest names its text and no other text
keccak256(content) == <<"keccak256", content>>

\* generateVariations: every ending variator applied to the result of every
\* content variator, the content variators outermost
generateVariations(pathContent) ==
  [k \in 1..(NumContentVariators * NumEndingVariators) |->
     [content |-> ENDING_VARIATORS(((k - 1) % NumEndingVariators) + 1,
                    CONTENT_VARIATORS(((k - 1) \div NumEndingVariators) + 1,
                                      pathContent.content)),
      path |-> pathContent.path]]

\* Map.prototype.set and an object's property assignment
MapSet(map, key, value) == (key :> value) @@ map

EmptyMap == <<>>

\* the entry of a storeByHash that indexes the provided file itself under
\* the digest of each of its variations
IndexedOriginal(pathContent, variation) ==
  [content |-> pathContent.content, path |-> pathContent.path]

\* line 293: the entry byHash.set stores for a variation of pathContent
Indexed(pathContent, variation) == variation

NumVariations == NumContentVariators * NumEndingVariators

\* storeByHash: the variations of every file are set under their digests in
\* the order of the two loops, so a digest keeps the entry set last
storeByHash(files) ==
  LET count == Len(files) * NumVariations
      fileOf(k) == files[((k - 1) \div NumVariations) + 1]
      variations == [i \in 1..Len(files) |-> generateVariations(files[i])]
      variationOf == [k \in 1..count |->
                        variations[((k - 1) \div NumVariations) + 1]
                                  [((k - 1) % NumVariations) + 1]]
      hashOf == [k \in 1..count |-> keccak256(variationOf[k].content)]
      last(h) == CHOOSE k \in 1..count :
                   /\ hashOf[k] = h
                   /\ \A j \in (k + 1)..count : hashOf[j] # h
  IN  [h \in {hashOf[k] : k \in 1..count} |->
         Indexed(fileOf(last(h)), variationOf[last(h)])]

(***************************************************************************)
(* ValidationService: reconciliation of one manifest                       *)
(***************************************************************************)
\* A source of a manifest is [inline, content, keccak256, urls]: inline tells
\* whether the entry carries a content field.

\* JavaScript truthiness of a source's content
Truthy(hasContent, content) == hasContent /\ content # <<>>

EmptySources ==
  [foundSources |-> EmptyMap, missingSources |-> EmptyMap,
   invalidSources |-> EmptyMap, metadata2provided |-> EmptyMap]

\* lines 271-275: a file with content is found, anything else is missing
FoundOrMissing(acc, sourcePath, hasContent, content, info) ==
  IF Truthy(hasContent, content)
  THEN [acc EXCEPT !.foundSources = MapSet(@, sourcePath, content)]
  ELSE [acc EXCEPT !.missingSources =
          MapSet(@, sourcePath,
                 [keccak256 |-> info.keccak256, urls |-> info.urls])]

InvalidEntry(expectedHash, contentHash) ==
  [expectedHash |-> expectedHash, calculatedHash |-> contentHash,
   msg |-> "keccak256 mismatch"]

\* one iteration of a loop that lacks the continue after an invalid source
rearrangeOneNoContinue(acc, sourcePath, info, byHash) ==
  LET expectedHash == info.keccak256
  IN  IF Truthy(info.inline, info.content)
      THEN LET contentHash == keccak256(info.content)
               marked == IF contentHash # expectedHash
                         THEN [acc EXCEPT !.invalidSources =
                                 MapSet(@, sourcePath,
                                        InvalidEntry(expectedHash, contentHash))]
                         ELSE acc
           IN  FoundOrMissing(marked, sourcePath, TRUE, info.content, info)
      ELSE IF expectedHash \in DOMAIN byHash
           THEN LET pathContent == byHash[expectedHash]
                IN  FoundOrMissing(
                      [acc EXCEPT !.metadata2provided =
                         MapSet(@, sourcePath, pathContent.path)],
                      sourcePath, TRUE, pathContent.content, info)
           ELSE FoundOrMissing(acc, sourcePath, info.inline, info.content, info)

\* one iteration of the loop of rearrangeSources
rearrangeOne(acc, sourcePath, info, byHash) ==
  LET expectedHash == info.keccak256
  IN  IF Truthy(info.inline, info.content)
      THEN LET contentHash == keccak256(info.content)
           IN  IF contentHash # expectedHash
               THEN [acc EXCEPT !.invalidSources =
                       MapSet(@, sourcePath,
                              InvalidEntry(expectedHash, contentHash))]
               ELSE FoundOrMissing(acc, sourcePath, TRUE, info.content, info)
      ELSE IF expectedHash \in DOMAIN byHash
           THEN LET pathContent == byHash[expectedHash]
                IN  FoundOrMissing(
                      [acc EXCEPT !.metadata2provided =
                         MapSet(@, sourcePath, pathContent.path)],
                      sourcePath, TRUE, pathContent.content, info)
           ELSE FoundOrMissing(acc, sourcePath, info.inline, info.content, info)

RECURSIVE rearrangeFrom(_, _, _, _)
rearrangeFrom(acc, sources, paths, byHash) ==
  IF paths = {} THEN acc
  ELSE LET sourcePath == CHOOSE p \in paths : TRUE
       IN  rearrangeFrom(rearrangeOne(acc, sourcePath, sources[sourcePath], byHash),
                         sources, paths \ {sourcePath}, byHash)

\* rearrangeSources: the keys of metadata.sources are distinct, so the order
\* of the iterations does not matter
rearrangeSources(metadata, byHash) ==
  rearrangeFrom(EmptySources, metadata.sources, DOMAIN metadata.sources, byHash)

\* new CheckedContract(metadata, solidity, missing, invalid)
CheckedContract(metadata, solidity, missing, invalid) ==
  [metadata |-> metadata, solidity |-> solidity, missing |-> missing,
   invalid |-> invalid]

\* CheckedContract.isValid
isValid(contract) == contract.missing = EmptyMap /\ contract.invalid = EmptyMap

(***************************************************************************)
(* ValidationService: recognition of manifests                             *)
(***************************************************************************)
\* A text is seen through three views besides its characters (content):
\*   doc      what JSON.parse makes of it: NotJson (it throws) or Json(value),
\*            a value being an object or a string that is a text again;
\*   hardhat  whether it matches HARDHAT_OUTPUT_FORMAT_REGEX;
\*   nested   the text NESTED_METADATA_REGEX matches in it, or NoMatch.
NotJson == [json |-> FALSE]
Json(value) == [json |-> TRUE, value |-> value]
ObjectValue(obj) == [type |-> "object", obj |-> obj]
StringValue(doc) == [type |-> "string", str |-> doc]
NoMatch == [match |-> FALSE]
Null == [null |-> TRUE]

\* settings.compilationTarget is absent
Absent == -1

\* isMetadata
isMetadata(value) ==
  /\ value.type = "object"
  /\ value.obj.language = "Solidity"
  /\ value.obj.target # Absent
  /\ value.obj.rest

\* extractMetadataFromString: parse, test, parse the result again, test
extractMetadataFromString(doc) ==
  IF ~doc.json THEN Null
  ELSE LET obj == doc.value
       IN  IF isMetadata(obj) THEN obj.obj
           ELSE IF obj.type = "string" /\ obj.str.json
                THEN IF isMetadata(obj.str.value) THEN obj.str.value.obj
                     ELSE Null
                ELSE Null

\* assertObjectSize(object, expectedSize): TRUE when it does not throw
assertObjectSize(size, expectedSize) ==
  IF size = Absent THEN FALSE ELSE size = expectedSize

RECURSIVE hardhatSources(_, _)
hardhatSources(sources, i) ==
  IF i > Len(sources) THEN <<>>
  ELSE (IF sources[i].content # <<>>
        THEN <<[path |-> sources[i].path, content |-> sources[i].content]>>
        ELSE <<>>) \o hardhatSources(sources, i + 1)

\* lines 429-437: every metadata string goes through
\* extractMetadataFromString and its result is pushed as it is
RECURSIVE hardhatMetadata(_, _)
hardhatMetadata(contracts, i) ==
  IF i > Len(contracts) THEN <<>>
  ELSE (IF contracts[i].hasMetadata
        THEN <<extractMetadataFromString(contracts[i].metadata)>>
        ELSE <<>>) \o hardhatMetadata(contracts, i + 1)

\* extractHardhatMetadataAndSources; threw: JSON.parse or a property access
\* of an undefined value raised
extractHardhatMetadataAndSources(hardhatFile) ==
  IF \/ ~hardhatFile.doc.json
     \/ hardhatFile.doc.value.type # "object"
     \/ ~hardhatFile.doc.value.obj.bundle
  THEN [threw |-> TRUE, hardhatMetadataFiles |-> <<>>,
        hardhatSourceFiles |-> <<>>]
  ELSE [threw |-> FALSE,
        hardhatMetadataFiles |->
          hardhatMetadata(hardhatFile.doc.value.obj.contracts, 1),
        hardhatSourceFiles |->
          hardhatSources(hardhatFile.doc.value.obj.input, 1)]

(***************************************************************************)
(* ValidationService: splitFiles, unzipFiles, checkFiles                   *)
(***************************************************************************)
NoError == "none"
MetadataNotFound == "Metadata file not found"
MalformedMetadata == "Couldn't parse metadata files or they are malformed"
UnzipError == "Error while unzipping"
BuildInfoError == "build-info bundle could not be read"
NullMetadataError == "Cannot read properties of null"

EmptySplit ==
  [metadataFiles |-> <<>>, sourceFiles |-> <<>>,
   malformedMetadataFiles |-> <<>>, threw |-> FALSE]

\* lines 196-213: the general recognition of one file
splitPlain(acc, file) ==
  LET first    == extractMetadataFromString(file.doc)
      metadata == IF first # Null THEN first
                  ELSE IF file.nested # NoMatch
                       THEN extractMetadataFromString(file.nested.doc)
                       ELSE Null
  IN  IF metadata # Null
      THEN IF assertObjectSize(metadata.target, 1)
           THEN [acc EXCEPT !.metadataFiles = Append(@, metadata)]
           ELSE [acc EXCEPT !.malformedMetadataFiles = Append(@, file.path)]
      ELSE [acc EXCEPT !.sourceFiles = Append(@, file)]

\* one iteration of the loop of splitFiles
splitOne(acc, file) ==
  IF file.hardhat
  THEN LET harvest == extractHardhatMetadataAndSources(file)
       IN  IF harvest.threw THEN [acc EXCEPT !.threw = TRUE]
           ELSE [acc EXCEPT
                   !.sourceFiles = @ \o harvest.hardhatSourceFiles,
                   !.metadataFiles = @ \o harvest.hardhatMetadataFiles]
  ELSE splitPlain(acc, file)

RECURSIVE splitFrom(_, _, _)
splitFrom(acc, files, i) ==
  IF i > Len(files) \/ acc.threw THEN acc
  ELSE splitFrom(splitOne(acc, files[i]), files, i + 1)

\* the error of a splitFiles that reports malformed manifests only when no
\* manifest is left
splitErrorLenient(split) ==
  IF split.threw THEN BuildInfoError
  ELSE IF split.metadataFiles = <<>> /\ split.malformedMetadataFiles # <<>>
       THEN MalformedMetadata
  ELSE IF split.metadataFiles = <<>> THEN MetadataNotFound
  ELSE NoError

\* lines 216-230: the message splitFiles throws, NoError when it returns
splitError(split) ==
  IF split.threw THEN BuildInfoError
  ELSE IF split.malformedMetadataFiles # <<>> THEN MalformedMetadata
  ELSE IF split.metadataFiles = <<>> THEN MetadataNotFound
  ELSE NoError

splitFiles(files) ==
  LET split == splitFrom(EmptySplit, files, 1)
  IN  [metadataFiles |-> split.metadataFiles,
       sourceFiles |-> split.sourceFiles,
       malformedMetadataFiles |-> split.malformedMetadataFiles,
       error |-> splitError(split)]

\* isZip: the four-byte signature
isZip(buffer) ==
  /\ buffer.magic[1] = 80
  /\ buffer.magic[2] = 75
  /\ buffer.magic[3] \in {3, 5, 7}
  /\ buffer.magic[4] \in {4, 6, 8}

RemoveAt(seq, i) == SubSeq(seq, 1, i - 1) \o SubSeq(seq, i + 1, Len(seq))

\* an unzipFiles that puts the members where the archive was and scans them
RECURSIVE unzipFromRescanning(_, _, _)
unzipFromRescanning(files, i, allUnzipped) ==
  IF i > Len(files) THEN [threw |-> FALSE, files |-> files]
  ELSE IF isZip(files[i].buffer)
       THEN IF ~files[i].buffer.readable
            THEN [threw |-> TRUE, files |-> files]
            ELSE unzipFromRescanning(
                   SubSeq(files, 1, i - 1) \o files[i].buffer.members
                     \o SubSeq(files, i + 1, Len(files)),
                   i, allUnzipped)
       ELSE unzipFromRescanning(files, i + 1, allUnzipped)

\* unzipFiles: the loop with its splice, then the push of the members
RECURSIVE unzipFrom(_, _, _)
unzipFrom(files, i, allUnzipped) ==
  IF i > Len(files) THEN [threw |-> FALSE, files |-> files \o allUnzipped]
  ELSE IF isZip(files[i].buffer)
       THEN IF ~files[i].buffer.readable
            THEN [threw |-> TRUE, files |-> files]
            ELSE unzipFrom(RemoveAt(files, i), i,
                           allUnzipped \o files[i].buffer.members)
       ELSE unzipFrom(files, i + 1, allUnzipped)

unzipFiles(files) == unzipFrom(files, 1, <<>>)

\* pathBuffer.buffer.toString() with the path: the text and its views
ToPathContent(pathBuffer) ==
  [path |-> pathBuffer.path, content |-> pathBuffer.buffer.content,
   doc |-> pathBuffer.buffer.doc, hardhat |-> pathBuffer.buffer.hardhat,
   nested |-> pathBuffer.buffer.nested]

ParseFiles(files) == [i \in 1..Len(files) |-> ToPathContent(files[i])]

RECURSIVE MapValues(_, _)
MapValues(map, keys) ==
  IF keys = {} THEN {}
  ELSE LET k == CHOOSE x \in keys : TRUE
       IN  {map[k]} \cup MapValues(map, keys \ {k})

\* extractUnused: the paths of the candidate sources that are in no usedFiles
extractUnused(inputFiles, usedFiles) ==
  LET paths == [i \in 1..Len(inputFiles) |-> inputFiles[i].path]
  IN  SelectSeq(paths, LAMBDA file : file \notin usedFiles)

RECURSIVE checkFrom(_, _, _, _)
checkFrom(acc, metadataFiles, i, byHash) ==
  IF i > Len(metadataFiles) \/ acc.threw THEN acc
  ELSE IF metadataFiles[i] = Null THEN [acc EXCEPT !.threw = TRUE]
  ELSE LET r == rearrangeSources(metadataFiles[i], byHash)
       IN  checkFrom(
             [acc EXCEPT
                !.usedFiles = @ \cup MapValues(r.metadata2provided,
                                               DOMAIN r.metadata2provided),
                !.checkedContracts =
                   Append(@, CheckedContract(metadataFiles[i], r.foundSources,
                                             r.missingSources,
                                             r.invalidSources))],
             metadataFiles, i + 1, byHash)

Failure(error, files) ==
  [error |-> error, checkedContracts |-> <<>>, unused |-> <<>>,
   files |-> files]

\* checkFiles(files, unused): what it throws or returns, the files array as
\* it leaves it and what it pushes to unused
checkFiles(files) ==
  LET unzipped == unzipFiles(files)
  IN  IF unzipped.threw THEN Failure(UnzipError, unzipped.files)
      ELSE
      LET split == splitFiles(ParseFiles(unzipped.files))
      IN  IF split.error # NoError THEN Failure(split.error, unzipped.files)
          ELSE
          LET byHash == storeByHash(split.sourceFiles)
              done   == checkFrom([usedFiles |-> {}, checkedContracts |-> <<>>,
                                   threw |-> FALSE],
                                  split.metadataFiles, 1, byHash)
          IN  IF done.threw THEN Failure(NullMetadataError, unzipped.files)
              ELSE [error |-> NoError,
                    checkedContracts |-> done.checkedContracts,
                    unused |-> extractUnused(split.sourceFiles, done.usedFiles),
                    files |-> unzipped.files]

\* the key pathContentArrayToStringMap gives the element at index i (from 0)
PathKey(elem, i) == IF elem.path # "" THEN elem.path ELSE "path-" \o ToString(i)

\* pathContentArrayToStringMap: a later element replaces an earlier one that
\* has the same key
pathContentArrayToStringMap(pathContentArr) ==
  LET n == Len(pathContentArr)
      keyOf == [i \in 1..n |-> PathKey(pathContentArr[i], i - 1)]
      last(k) == CHOOSE i \in 1..n :
                   /\ keyOf[i] = k
                   /\ \A j \in (i + 1)..n : keyOf[j] # k
  IN  [k \in {keyOf[i] : i \in 1..n} |-> pathContentArr[last(k)].content]

\* an Object.assign in which the properties of the target win
ObjectAssignKeepTarget(target, source) == target @@ source

\* Object.assign(target, source): the properties of source replace those of
\* target
ObjectAssign(target, source) == source @@ target

\* argument is the contract argument as the call leaves it: useAllSources
\* assigns to none of its properties
UseFailure(error, contract, files) ==
  [error |-> error, contract |-> contract, files |-> files,
   argument |-> contract]

\* useAllSources(contract, files): what it throws or returns, and the files
\* array as it leaves it
useAllSources(contract, files) ==
  LET unzipped == unzipFiles(files)
  IN  IF unzipped.threw THEN UseFailure(UnzipError, contract, unzipped.files)
      ELSE
      LET split == splitFiles(ParseFiles(unzipped.files))
      IN  IF split.error # NoError
          THEN UseFailure(split.error, contract, unzipped.files)
          ELSE LET stringMapSourceFiles ==
                     pathContentArrayToStringMap(split.sourceFiles)
               IN  [error |-> NoError,
                    contract |->
                      CheckedContract(contract.metadata,
                                      ObjectAssign(stringMapSourceFiles,
                                                   contract.solidity),
                                      contract.missing, contract.invalid),
                    files |-> unzipped.files,
                    argument |-> contract]

(***************************************************************************)
(* ValidationService: the inputs of the checked calls                      *)
(***************************************************************************)
\* files in one generated bag of arbitrary blobs
MaxFiles == 2
\* candidate sources provided beside one manifest
MaxProvided == 2

SeqsUpTo(S, n) == UNION {[1..k -> S] : k \in 0..n}

TextA == <<"a">>
TextALF == <<"a", "LF">>

Source(inline, content, digest) ==
  [inline |-> inline, content |-> content, keccak256 |-> digest,
   urls |-> <<"bzz-raw://source">>]

\* a JSON object with the fields isMetadata and assertObjectSize look at:
\* target is the number of entries of settings.compilationTarget, rest tells
\* whether version, output.abi, output.userdoc, output.devdoc and sources
\* are all present
Object(language, target, rest, sources) ==
  [language |-> language, target |-> target, rest |-> rest,
   sources |-> sources, bundle |-> FALSE]

Manifest(target, sources) == Object("Solidity", target, TRUE, sources)

\* a build-info object: input.sources and the metadata of output.contracts
Bundle(input, contracts) ==
  [language |-> "none", target |-> Absent, rest |-> FALSE,
   sources |-> EmptyMap, bundle |-> TRUE, input |-> input,
   contracts |-> contracts]

PlainDoc(obj) == Json(ObjectValue(obj))
DoubleDoc(obj) == Json(StringValue(PlainDoc(obj)))

TextBuffer(content) ==
  [magic |-> <<97, 0, 0, 0>>, readable |-> FALSE, members |-> <<>>,
   content |-> content, doc |-> NotJson, hardhat |-> FALSE,
   nested |-> NoMatch]

JsonBuffer(doc) ==
  [magic |-> <<123, 34, 0, 0>>, readable |-> FALSE, members |-> <<>>,
   content |-> <<"{json}">>, doc |-> doc, hardhat |-> FALSE,
   nested |-> NoMatch]

\* a JSON file that holds a manifest as a quoted string somewhere inside
NestedBuffer(obj) ==
  [magic |-> <<123, 34, 0, 0>>, readable |-> FALSE, members |-> <<>>,
   content |-> <<"{json}">>,
   doc |-> PlainDoc(Object("none", Absent, FALSE, EmptyMap)),
   hardhat |-> FALSE, nested |-> [match |-> TRUE, doc |-> DoubleDoc(obj)]]

HardhatBuffer(doc) ==
  [magic |-> <<123, 34, 0, 0>>, readable |-> FALSE, members |-> <<>>,
   content |-> <<"{json}">>, doc |-> doc, hardhat |-> TRUE,
   nested |-> NoMatch]

BinaryBuffer(magic, readable, members) ==
  [magic |-> magic, readable |-> readable, members |-> members,
   content |-> <<"PK">>, doc |-> NotJson, hardhat |-> FALSE,
   nested |-> NoMatch]

PathBuffer(path, buffer) == [path |-> path, buffer |-> buffer]

\* manifests of the pool
ByHashManifest == Manifest(1, "A.sol" :> Source(FALSE, <<>>, keccak256(TextA)))
InlineManifest == Manifest(1, "B.sol" :> Source(TRUE, TextA, keccak256(TextA)))
TwoTargets == Manifest(2, "A.sol" :> Source(TRUE, TextA, keccak256(TextA)))
NoTargets == Manifest(0, "A.sol" :> Source(TRUE, TextA, keccak256(TextA)))
OtherJson == Object("Vyper", 1, TRUE, EmptyMap)
NoTargetField == Object("Solidity", Absent, TRUE, EmptyMap)

SourceFile == PathBuffer("x.sol", TextBuffer(TextA))
PlainFile == PathBuffer("m.json", JsonBuffer(PlainDoc(ByHashManifest)))
InnerZip == PathBuffer("in.zip", BinaryBuffer(<<80, 75, 3, 4>>, TRUE, <<SourceFile>>))

\* the blobs the bags of the recognition cases are made of
Pool ==
  { SourceFile,
    PlainFile,
    PathBuffer("d.json", JsonBuffer(DoubleDoc(InlineManifest))),
    PathBuffer("n.json", NestedBuffer(InlineManifest)),
    PathBuffer("t2.json", JsonBuffer(PlainDoc(TwoTargets))),
    PathBuffer("t0.json", JsonBuffer(DoubleDoc(NoTargets))),
    PathBuffer("o.json", JsonBuffer(PlainDoc(OtherJson))),
    PathBuffer("na.json", JsonBuffer(PlainDoc(NoTargetField))),
    PathBuffer("hh.json", HardhatBuffer(PlainDoc(
      Bundle(<<[path |-> "A.sol", content |-> TextA]>>,
             <<[hasMetadata |-> TRUE, metadata |-> PlainDoc(ByHashManifest)]>>)))),
    PathBuffer("hh2.json", HardhatBuffer(PlainDoc(
      Bundle(<<>>, <<[hasMetadata |-> TRUE, metadata |-> PlainDoc(TwoTargets)]>>)))),
    PathBuffer("hh0.json", HardhatBuffer(PlainDoc(
      Bundle(<<[path |-> "A.sol", content |-> TextA]>>,
             <<[hasMetadata |-> TRUE, metadata |-> PlainDoc(OtherJson)]>>)))),
    PathBuffer("hhx.txt", HardhatBuffer(NotJson)),
    PathBuffer("z.zip", BinaryBuffer(<<80, 75, 3, 4>>, TRUE,
                                     <<PlainFile, SourceFile, InnerZip>>)),
    PathBuffer("bad.zip", BinaryBuffer(<<80, 75, 5, 6>>, FALSE, <<>>)),
    PathBuffer("pk.bin", BinaryBuffer(<<80, 75, 1, 2>>, FALSE, <<>>)) }

RecognitionBags == SeqsUpTo(Pool, MaxFiles)

\* the transforms a provided file may have gone through: identity, LF->CRLF,
\* CRLF->LF, trim, trim+LF, trim+CRLF, +LF, +CRLF
Transforms == 1..8

Transform(t, text) ==
  CASE t = 1 -> text
    [] t = 2 -> ToCRLF(text)
    [] t = 3 -> ToLF(text)
    [] t = 4 -> TrimEnd(text)
    [] t = 5 -> TrimEnd(text) \o <<"LF">>
    [] t = 6 -> TrimEnd(text) \o <<"CR", "LF">>
    [] t = 7 -> text \o <<"LF">>
    [] t = 8 -> text \o <<"CR", "LF">>

\* a manifest that declares keccak256(text) for A.sol, and the only provided
\* file, which holds the transformed text
VariationBag(text, t) ==
  << PathBuffer("m.json", JsonBuffer(PlainDoc(
       Manifest(1, "A.sol" :> Source(FALSE, <<>>, keccak256(text)))))),
     PathBuffer("x.sol", TextBuffer(Transform(t, text))) >>

\* the texts of the reconciliation cases
SmallTexts == {<<>>, TextA, TextALF}

DeclaredSources ==
  {Source(TRUE, c, keccak256(d)) : c \in SmallTexts, d \in SmallTexts}
  \cup {Source(FALSE, <<>>, keccak256(d)) : d \in SmallTexts}

SourceMaps ==
  [{"A.sol"} -> DeclaredSources] \cup [{"A.sol", "B.sol"} -> DeclaredSources]

ProvidedPaths == <<"x.sol", "y.sol", "z.sol", "w.sol">>

\* one manifest and up to MaxProvided candidate sources
ReconcileBag(sources, provided) ==
  << PathBuffer("m.json", JsonBuffer(PlainDoc(Manifest(1, sources)))) >>
  \o [i \in 1..Len(provided) |->
        PathBuffer(ProvidedPaths[i], TextBuffer(provided[i]))]

ReconcileBags ==
  {ReconcileBag(sources, provided) :
     sources \in SourceMaps, provided \in SeqsUpTo(SmallTexts, MaxProvided)}

\* candidate sources whose paths are a key of the manifest, another name, or
\* no path at all
NamedFiles ==
  {PathBuffer(path, TextBuffer(content)) :
     path \in {"A.sol", "x.sol", ""}, content \in {TextA, TextALF}}

\* the manifest that declares A.sol by its hash, and named candidates
NamedBags == {<<PlainFile>> \o provided : provided \in SeqsUpTo(NamedFiles, MaxProvided)}

\* blobs handed to useAllSources that are not those of the checkFiles call
OtherBlobs ==
  << PathBuffer("A.sol", TextBuffer(TextALF)),
     PathBuffer("", TextBuffer(TextA)),
     PlainFile,
     PathBuffer("x.sol", TextBuffer(<<>>)) >>

NotCalledYet == "not called"

NotCalled == Failure(NotCalledYet, <<>>)

NotUsed ==
  [error |-> NotCalledYet, contract |-> Null, files |-> <<>>,
   input |-> Null, blobs |-> <<>>, argument |-> Null]

\* blobs without a manifest that has one compilation target: a lone source,
\* a manifest with two targets, a bundle that carries such a manifest, a
\* bundle that cannot be read, an archive that cannot be read
ManifestlessBlobs ==
  { <<SourceFile>>,
    <<PathBuffer("t2.json", JsonBuffer(PlainDoc(TwoTargets))), SourceFile>>,
    <<PathBuffer("hh2.json", HardhatBuffer(PlainDoc(
        Bundle(<<>>, <<[hasMetadata |-> TRUE, metadata |-> PlainDoc(TwoTargets)]>>))))>>,
    <<PathBuffer("hhx.txt", HardhatBuffer(NotJson))>>,
    <<PathBuffer("bad.zip", BinaryBuffer(<<80, 75, 5, 6>>, FALSE, <<>>))>> }

(***************************************************************************)
(* ChainMonitor                                                            *)
(***************************************************************************)
Min(a, b) == IF a <= b THEN a ELSE b
Max(a, b) == IF a >= b THEN a ELSE b

UpperLimit == BLOCK_PAUSE_UPPER_LIMIT * PauseUnit
LowerLimit == BLOCK_PAUSE_LOWER_LIMIT * PauseUnit

\* parseInt(process.env.GET_BLOCK_PAUSE) || (10 * 1000)
ParsePause(configured) ==
  IF configured = 0 THEN DEFAULT_GET_BLOCK_PAUSE * PauseUnit
  ELSE configured * PauseUnit

\* adaptBlockPause: multiply by the factor or by its inverse, then clamp
adaptBlockPause(pause, operation) ==
  LET scaled == IF operation = "increase"
                THEN (pause * FactorNum) \div FactorDen
                ELSE (pause * FactorDen) \div FactorNum
  IN  Max(Min(scaled, UpperLimit), LowerLimit)

\* a mySetTimeout that does not consult running
mySetTimeoutUnguarded(timers, entry) == timers (+) SetToBag({entry})

\* mySetTimeout: the timer is armed only while running
mySetTimeout(timers, entry) ==
  IF running THEN timers (+) SetToBag({entry}) ELSE timers

\* the delay mySetTimeout hands to setTimeout, when it arms one
TimeoutDelay(delay) == IF running THEN delay ELSE lastDelay

\* the kinds of transaction processBlock tells apart:
\*   "call"     tx.to is set
\*   "new"      creates a contract that findByAddress does not know
\*   "verified" creates a contract that findByAddress knows
\*   "raise"    creates a contract; getContractAddress or findByAddress throws
TxKinds == {"call", "new", "verified", "raise"}

Blocks == UNION {[1..k -> TxKinds] : k \in 0..MaxTxs}

createsContract(tx) == tx # "call"

\* the index of the first transaction whose handling raises, 0 when none
RECURSIVE FirstRaise(_, _)
FirstRaise(block, i) ==
  IF i > Len(block) THEN 0
  ELSE IF block[i] = "raise" THEN i
  ELSE FirstRaise(block, i + 1)

\* the transactions the loop of processBlock handles before it ends
Handled(block) ==
  IF FirstRaise(block, 1) = 0 THEN 1..Len(block)
  ELSE 1..(FirstRaise(block, 1) - 1)

\* the addresses processBlock launches processBytecode for
Launched(blockNumber, block) ==
  {<<blockNumber, i>> : i \in {j \in Handled(block) : block[j] = "new"}}

\* a processBlock that also moves on after a null block
NextBlockNumberPastNull(blockNumber, outcome) ==
  IF outcome \in {"handled", "null"} THEN blockNumber + 1 ELSE blockNumber

\* a processBlock that increments blockNumber in finally, whatever happened
NextBlockNumberAlways(blockNumber, outcome) == blockNumber + 1

\* the block number processBlock hands to the next timer
NextBlockNumber(blockNumber, outcome) ==
  IF outcome = "handled" THEN blockNumber + 1 ELSE blockNumber

\* a processBytecode that passes its budget on without decrementing it
processBytecodeNoDecrement(fetches, addr, retriesLeft) ==
  IF retriesLeft <= 0 THEN fetches
  ELSE fetches (+) SetToBag({[addr |-> addr, retriesLeft |-> retriesLeft]})

\* processBytecode up to its getCode request: the bag of requests it adds
processBytecode(fetches, addr, retriesLeft) ==
  IF retriesLeft <= 0 THEN fetches
  ELSE fetches (+) SetToBag({[addr |-> addr, retriesLeft |-> retriesLeft - 1]})

RECURSIVE LaunchAll(_, _)
LaunchAll(fetches, addrs) ==
  IF addrs = {} THEN fetches
  ELSE LET a == CHOOSE x \in addrs : TRUE
       IN  LaunchAll(processBytecode(fetches, a, INITIAL_GET_BYTECODE_TRIES),
                     addrs \ {a})

InitMon ==
  /\ running = FALSE
  /\ \E c \in ConfiguredPauses : getBlockPause = ParsePause(c)
  /\ web3provider = 0
  /\ startPc = "idle"
  /\ probeIx = 1
  /\ rawStartBlock \in ConfiguredStarts
  /\ startBlock = -1
  /\ pollTimers = EmptyBag
  /\ blockFetches = EmptyBag
  /\ retryTimers = EmptyBag
  /\ codeFetches = EmptyBag
  /\ assembling = EmptyBag
  /\ injected = EmptyBag
  /\ processed = <<>>
  /\ polls = 0
  /\ launches = 0
  /\ codeRequests = 0
  /\ lastDelay = -1
  /\ stoppedFires = {}

\* start() up to its first await
Start ==
  /\ startPc = "idle"
  /\ running' = TRUE
  /\ probeIx' = 1
  /\ startPc' = IF Len(web3urls) = 0 THEN "done" ELSE "probing"
  /\ UNCHANGED <<valVars, adaptVars, stoppedFires, getBlockPause, web3provider, rawStartBlock, startBlock,
                 pollTimers, blockFetches, retryTimers, codeFetches,
                 assembling, injected, processed, polls, launches, codeRequests, lastDelay>>

\* getBlockNumber of the probed endpoint resolves, processBlock is called and
\* the loop over the endpoints goes on (no break)
ProbeSucceedsNoBreak ==
  /\ startPc = "probing"
  /\ \E lastBlockNumber \in HeadNumbers :
       LET first == IF rawStartBlock # NoOverride THEN rawStartBlock
                    ELSE lastBlockNumber
       IN  /\ web3provider' = probeIx
           /\ startBlock' = first
           /\ blockFetches' = blockFetches (+) SetToBag({first})
  /\ polls' = polls + 1
  /\ IF probeIx < Len(web3urls)
     THEN probeIx' = probeIx + 1 /\ startPc' = "probing"
     ELSE probeIx' = probeIx /\ startPc' = "done"
  /\ UNCHANGED <<valVars, adaptVars, stoppedFires, running, getBlockPause, rawStartBlock, pollTimers,
                 retryTimers, codeFetches, assembling, injected, processed,
                 launches, codeRequests, lastDelay>>

\* getBlockNumber of the probed endpoint resolves: latch it, call processBlock
ProbeSucceeds ==
  /\ startPc = "probing"
  /\ \E lastBlockNumber \in HeadNumbers :
       LET first == IF rawStartBlock # NoOverride THEN rawStartBlock
                    ELSE lastBlockNumber
       IN  /\ web3provider' = probeIx
           /\ startBlock' = first
           /\ blockFetches' = blockFetches (+) SetToBag({first})
  /\ polls' = polls + 1
  /\ startPc' = "done"
  /\ UNCHANGED <<valVars, adaptVars, stoppedFires, running, getBlockPause, probeIx, rawStartBlock, pollTimers,
                 retryTimers, codeFetches, assembling, injected, processed,
                 launches, codeRequests, lastDelay>>

\* getBlockNumber of the probed endpoint rejects: try the next endpoint
ProbeFails ==
  /\ startPc = "probing"
  /\ IF probeIx < Len(web3urls)
     THEN probeIx' = probeIx + 1 /\ startPc' = "probing"
     ELSE probeIx' = probeIx /\ startPc' = "done"
  /\ UNCHANGED <<valVars, adaptVars, stoppedFires, running, getBlockPause, web3provider, rawStartBlock,
                 startBlock, pollTimers, blockFetches, retryTimers,
                 codeFetches, assembling, injected, processed, polls,
                 launches, codeRequests, lastDelay>>

Stop ==
  /\ running' = FALSE
  /\ UNCHANGED <<valVars, adaptVars, stoppedFires, getBlockPause, web3provider, startPc, probeIx, rawStartBlock,
                 startBlock, pollTimers, blockFetches, retryTimers,
                 codeFetches, assembling, injected, processed, polls,
                 launches, codeRequests, lastDelay>>

\* a poll timer whose handler consults running and drops when it is false
PollTimerFiresGuarded ==
  /\ polls + codeRequests < MaxRequests
  /\ \E n \in BagToSet(pollTimers) :
       /\ pollTimers' = pollTimers (-) SetToBag({n})
       /\ blockFetches' = IF running THEN blockFetches (+) SetToBag({n})
                          ELSE blockFetches
  /\ polls' = IF running THEN polls + 1 ELSE polls
  /\ stoppedFires' = IF running THEN stoppedFires ELSE stoppedFires \cup {"poll"}
  /\ UNCHANGED <<valVars, adaptVars, running, getBlockPause, web3provider, startPc, probeIx,
                 rawStartBlock, startBlock, retryTimers, codeFetches,
                 assembling, injected, processed, launches, codeRequests, lastDelay>>

\* a poll timer fires: processBlock issues getBlock
PollTimerFires ==
  /\ polls + codeRequests < MaxRequests
  /\ \E n \in BagToSet(pollTimers) :
       /\ pollTimers' = pollTimers (-) SetToBag({n})
       /\ blockFetches' = blockFetches (+) SetToBag({n})
  /\ polls' = polls + 1
  /\ stoppedFires' = IF running THEN stoppedFires ELSE stoppedFires \cup {"poll"}
  /\ UNCHANGED <<valVars, adaptVars, running, getBlockPause, web3provider, startPc, probeIx,
                 rawStartBlock, startBlock, retryTimers, codeFetches,
                 assembling, injected, processed, launches, codeRequests, lastDelay>>

\* getBlock resolves with null: then, finally
BlockIsNull ==
  \E n \in BagToSet(blockFetches) :
    LET pause == adaptBlockPause(getBlockPause, "increase")
    IN  /\ blockFetches' = blockFetches (-) SetToBag({n})
        /\ getBlockPause' = pause
        /\ pollTimers' = mySetTimeout(pollTimers, NextBlockNumber(n, "null"))
        /\ lastDelay' = TimeoutDelay(pause)
        /\ UNCHANGED <<valVars, adaptVars, stoppedFires, running, web3provider, startPc, probeIx, rawStartBlock,
                       startBlock, retryTimers, codeFetches, assembling,
                       injected, processed, polls, launches, codeRequests>>

\* getBlock rejects and the rejection ends the loop: no timer is armed
BlockFetchFailsEndsLoop ==
  \E n \in BagToSet(blockFetches) :
    /\ blockFetches' = blockFetches (-) SetToBag({n})
    /\ UNCHANGED <<valVars, adaptVars, stoppedFires, running, getBlockPause, web3provider, startPc, probeIx,
                   rawStartBlock, startBlock, retryTimers, codeFetches, pollTimers, lastDelay,
                   assembling, injected, processed, polls, launches, codeRequests>>

\* getBlock rejects: catch, finally
BlockFetchFails ==
  \E n \in BagToSet(blockFetches) :
    /\ blockFetches' = blockFetches (-) SetToBag({n})
    /\ pollTimers' = mySetTimeout(pollTimers, NextBlockNumber(n, "failed"))
    /\ lastDelay' = TimeoutDelay(getBlockPause)
    /\ UNCHANGED <<valVars, adaptVars, stoppedFires, running, getBlockPause, web3provider, startPc, probeIx,
                   rawStartBlock, startBlock, retryTimers, codeFetches,
                   assembling, injected, processed, polls, launches, codeRequests>>

\* getBlock resolves with a block: then (the loop over its transactions),
\* catch when a transaction raises, finally
BlockArrives ==
  \E n \in BagToSet(blockFetches), block \in Blocks :
    LET pause    == adaptBlockPause(getBlockPause, "decrease")
        addrs    == Launched(n, block)
        outcome  == IF FirstRaise(block, 1) = 0 THEN "handled" ELSE "raised"
    IN  /\ polls + codeRequests + Cardinality(addrs) <= MaxRequests
        /\ codeRequests' = codeRequests + Cardinality(addrs)
        /\ blockFetches' = blockFetches (-) SetToBag({n})
        /\ getBlockPause' = pause
        /\ codeFetches' = LaunchAll(codeFetches, addrs)
        /\ launches' = launches + Cardinality(addrs)
        /\ processed' = IF outcome = "handled" THEN Append(processed, n)
                        ELSE processed
        /\ pollTimers' = mySetTimeout(pollTimers, NextBlockNumber(n, outcome))
        /\ lastDelay' = TimeoutDelay(pause)
        /\ UNCHANGED <<valVars, adaptVars, stoppedFires, running, web3provider, startPc, probeIx, rawStartBlock,
                       startBlock, retryTimers, assembling, injected, polls>>

\* a retry timer fires: processBytecode
RetryTimerFires ==
  \E t \in BagToSet(retryTimers) :
    /\ t.retries > 0 => polls + codeRequests < MaxRequests
    /\ retryTimers' = retryTimers (-) SetToBag({t})
    /\ codeFetches' = processBytecode(codeFetches, t.addr, t.retries)
    /\ codeRequests' = IF t.retries > 0 THEN codeRequests + 1 ELSE codeRequests
    /\ stoppedFires' = IF running THEN stoppedFires ELSE stoppedFires \cup {"retry"}
    /\ UNCHANGED <<valVars, adaptVars, running, getBlockPause, web3provider, startPc, probeIx,
                   rawStartBlock, startBlock, pollTimers, blockFetches,
                   assembling, injected, processed, polls, launches,
                   lastDelay>>

\* getCode resolves with "0x", or rejects: the retry is handed to mySetTimeout
CodeIsEmptyOrFails ==
  \E f \in BagToSet(codeFetches) :
    /\ codeFetches' = codeFetches (-) SetToBag({f})
    /\ retryTimers' = mySetTimeout(retryTimers,
                         [addr |-> f.addr, retries |-> f.retriesLeft])
    /\ UNCHANGED <<valVars, adaptVars, stoppedFires, running, getBlockPause, web3provider, startPc, probeIx,
                   rawStartBlock, startBlock, pollTimers, blockFetches,
                   assembling, injected, processed, polls, launches, codeRequests,
                   lastDelay>>

\* getCode resolves with bytecode whose trailer decodes: assemble is called
CodeArrives ==
  \E f \in BagToSet(codeFetches) :
    /\ codeFetches' = codeFetches (-) SetToBag({f})
    /\ assembling' = assembling (+) SetToBag({f.addr})
    /\ UNCHANGED <<valVars, adaptVars, stoppedFires, running, getBlockPause, web3provider, startPc, probeIx,
                   rawStartBlock, startBlock, pollTimers, blockFetches,
                   retryTimers, injected, processed, polls, launches, codeRequests,
                   lastDelay>>

\* getCode resolves with bytecode whose trailer does not decode, and the
\* retry is handed to mySetTimeout as after a rejected getCode
CodeUndecodableRetries ==
  \E f \in BagToSet(codeFetches) :
    /\ codeFetches' = codeFetches (-) SetToBag({f})
    /\ retryTimers' = mySetTimeout(retryTimers,
                         [addr |-> f.addr, retries |-> f.retriesLeft])
    /\ UNCHANGED <<valVars, adaptVars, stoppedFires, running, getBlockPause, web3provider, startPc, probeIx,
                   rawStartBlock, startBlock, pollTimers, blockFetches,
                   assembling, injected, processed, polls,
                   launches, codeRequests, lastDelay>>

\* getCode resolves with bytecode whose trailer does not decode: logged
CodeUndecodable ==
  \E f \in BagToSet(codeFetches) :
    /\ codeFetches' = codeFetches (-) SetToBag({f})
    /\ UNCHANGED <<valVars, adaptVars, stoppedFires, running, getBlockPause, web3provider, startPc, probeIx,
                   rawStartBlock, startBlock, pollTimers, blockFetches,
                   retryTimers, assembling, injected, processed, polls,
                   launches, codeRequests, lastDelay>>

\* the source fetcher delivers the contract: the callback calls inject
inject ==
  \E a \in BagToSet(assembling) :
    /\ assembling' = assembling (-) SetToBag({a})
    /\ injected' = injected (+) SetToBag({a})
    /\ UNCHANGED <<valVars, adaptVars, stoppedFires, running, getBlockPause, web3provider, startPc, probeIx,
                   rawStartBlock, startBlock, pollTimers, blockFetches,
                   retryTimers, codeFetches, processed, polls, launches, codeRequests,
                   lastDelay>>

NextMon ==
  \/ Start
  \/ ProbeSucceeds
  \/ ProbeFails
  \/ Stop
  \/ PollTimerFires
  \/ BlockIsNull
  \/ BlockFetchFails
  \/ BlockArrives
  \/ RetryTimerFires
  \/ CodeIsEmptyOrFails
  \/ CodeArrives
  \/ CodeUndecodable
  \/ inject

\* the pauses GET_BLOCK_PAUSE is set to, in milliseconds; 0 stands for unset
PauseInputs == {0, 100, 300, 499, 500, 520, 1000, 2000, 10000, 27000, 29000, 30000, 60000}

\* the longest run of null blocks followed
MaxNulls == 4

InitAdapt(configured) ==
  /\ adaptInitial = ParsePause(configured)
  /\ adaptNulls = 0
  /\ adaptPause = ParsePause(configured)
  /\ adaptPrevious = -1

\* getBlock resolves with null: adaptBlockPause("increase")
NullBlockAdapts ==
  /\ adaptPrevious = -1
  /\ adaptNulls < MaxNulls
  /\ adaptPause' = adaptBlockPause(adaptPause, "increase")
  /\ adaptNulls' = adaptNulls + 1
  /\ UNCHANGED <<monVars, valVars, adaptInitial, adaptPrevious>>

\* getBlock resolves with a block: adaptBlockPause("decrease")
BlockAdapts ==
  /\ adaptPrevious = -1
  /\ adaptPrevious' = adaptPause
  /\ adaptPause' = adaptBlockPause(adaptPause, "decrease")
  /\ UNCHANGED <<monVars, valVars, adaptInitial, adaptNulls>>

Init ==
  /\ InitMon
  /\ InitAdapt(0)
  /\ vCase = [family |-> "none", text |-> <<>>, t |-> 0]
  /\ vFiles = <<>>
  /\ vResult = NotCalled
  /\ vUse = NotUsed

Spec == Init /\ [][NextMon]_vars

\* The monitor when stop() is never called: running stays true once start()
\* has set it.
NextLive ==
  \/ Start
  \/ ProbeSucceeds
  \/ ProbeFails
  \/ PollTimerFires
  \/ BlockIsNull
  \/ BlockFetchFails
  \/ BlockArrives
  \/ RetryTimerFires
  \/ CodeIsEmptyOrFails
  \/ CodeArrives
  \/ CodeUndecodable
  \/ inject

\* The event loop runs every timer that is due; and a block that is requested
\* again and again is in the end delivered and handled without a throw.
FairLive ==
  /\ WF_vars(PollTimerFires)
  /\ SF_vars(BlockArrives /\ processed' # processed)

\* liveness does not depend on the configured pause or start block: one
\* configuration, GET_BLOCK_PAUSE and MONITOR_START unset
InitLive ==
  /\ Init
  /\ getBlockPause = ParsePause(0)
  /\ rawStartBlock = NoOverride

SpecLive == InitLive /\ [][NextLive]_vars /\ FairLive

\* start() is called again, after an earlier call of it has completed and
\* stop() was called; followed while a second poll loop is the most there is
StartAgain ==
  /\ startPc = "done"
  /\ ~running
  /\ polls + codeRequests < MaxRequests
  /\ BagCardinality(pollTimers) + BagCardinality(blockFetches) <= 1
  /\ running' = TRUE
  /\ probeIx' = 1
  /\ startPc' = IF Len(web3urls) = 0 THEN "done" ELSE "probing"
  /\ UNCHANGED <<valVars, adaptVars, stoppedFires, getBlockPause, web3provider, rawStartBlock, startBlock,
                 pollTimers, blockFetches, retryTimers, codeFetches,
                 assembling, injected, processed, polls, launches, codeRequests, lastDelay>>

\* The poll loop of a monitor whose owner may call start() more than once;
\* the getCode requests of the launches stay unanswered.
NextRestart ==
  \/ Start
  \/ StartAgain
  \/ ProbeSucceeds
  \/ ProbeFails
  \/ Stop
  \/ PollTimerFires
  \/ BlockIsNull
  \/ BlockFetchFails
  \/ BlockArrives

SpecRestart == InitLive /\ [][NextRestart]_vars

\* A call of checkFiles on a fresh validation service; the service keeps no
\* state between calls, so one call per behaviour covers them all.
\* checkFiles on a bag of arbitrary blobs
CheckBlobs ==
  /\ vResult.error = NotCalledYet
  /\ \E files \in RecognitionBags :
       /\ vCase' = [family |-> "blobs", text |-> <<>>, t |-> 0]
       /\ vFiles' = files
       /\ vResult' = checkFiles(files)
  /\ UNCHANGED <<monVars, adaptVars, vUse>>

\* checkFiles on a manifest and one provided file that went through a transform
CheckTransformed ==
  /\ vResult.error = NotCalledYet
  /\ \E text \in Texts, t \in Transforms :
       /\ vCase' = [family |-> "transformed", text |-> text, t |-> t]
       /\ vFiles' = VariationBag(text, t)
       /\ vResult' = checkFiles(VariationBag(text, t))
  /\ UNCHANGED <<monVars, adaptVars, vUse>>

\* checkFiles on a manifest and some candidate sources
CheckSources ==
  /\ vResult.error = NotCalledYet
  /\ \E files \in ReconcileBags :
       /\ vCase' = [family |-> "sources", text |-> <<>>, t |-> 0]
       /\ vFiles' = files
       /\ vResult' = checkFiles(files)
  /\ UNCHANGED <<monVars, adaptVars, vUse>>

\* checkFiles on a manifest and candidates named like its source, or unnamed
CheckNamed ==
  /\ vResult.error = NotCalledYet
  /\ \E files \in NamedBags :
       /\ vCase' = [family |-> "named", text |-> <<>>, t |-> 0]
       /\ vFiles' = files
       /\ vResult' = checkFiles(files)
  /\ UNCHANGED <<monVars, adaptVars, vUse>>

\* useAllSources on a contract checkFiles returned, with the array checkFiles
\* was given as it was before the call, as the call left it, or other blobs
UseAllSources ==
  /\ vResult.error = NoError
  /\ vUse.error = NotCalledYet
  /\ \E i \in 1..Len(vResult.checkedContracts),
        blobs \in {vFiles, vResult.files, OtherBlobs} \cup ManifestlessBlobs :
       LET contract == vResult.checkedContracts[i]
           outcome  == useAllSources(contract, blobs)
       IN  vUse' = [error |-> outcome.error, contract |-> outcome.contract,
                    files |-> outcome.files, input |-> contract,
                    blobs |-> blobs, argument |-> outcome.argument]
  /\ UNCHANGED <<monVars, adaptVars, vCase, vFiles, vResult>>

NoCase == [family |-> "none", text |-> <<>>, t |-> 0]

InitVal ==
  /\ InitMon
  /\ InitAdapt(0)
  /\ getBlockPause = ParsePause(0)
  /\ rawStartBlock = NoOverride
  /\ vCase = NoCase
  /\ vFiles = <<>>
  /\ vResult = NotCalled
  /\ vUse = NotUsed

NextVal ==
  \/ CheckBlobs
  \/ CheckTransformed
  \/ CheckSources
  \/ CheckNamed
  \/ UseAllSources

SpecVal == InitVal /\ [][NextVal]_vars

\* A monitor constructed with one of the pauses, which then receives null
\* blocks in a row and one block after them.
InitPause ==
  /\ InitMon
  /\ getBlockPause = ParsePause(0)
  /\ rawStartBlock = NoOverride
  /\ vCase = NoCase
  /\ vFiles = <<>>
  /\ vResult = NotCalled
  /\ vUse = NotUsed
  /\ \E configured \in PauseInputs : InitAdapt(configured)

NextPause ==
  \/ NullBlockAdapts
  \/ BlockAdapts

SpecPause == InitPause /\ [][NextPause]_vars

(***************************************************************************)
(* Claims about the chain monitor, checked under Spec.                     *)
(***************************************************************************)

\* C1: in every reachable state getBlockPause lies between
\* BLOCK_PAUSE_LOWER_LIMIT and BLOCK_PAUSE_UPPER_LIMIT, and so does every
\* delay handed to the poll timer.
C1_PauseWithinLimits ==
  /\ LowerLimit <= getBlockPause /\ getBlockPause <= UpperLimit
  /\ lastDelay # -1 => (LowerLimit <= lastDelay /\ lastDelay <= UpperLimit)

\* C2: the blocks handled without a raise are startBlock, startBlock + 1, ...
\* in this order with none skipped, and no block number already handled is
\* requested again or waits in a poll timer.
C2_AscendingBlocks ==
  /\ \A i \in 1..Len(processed) : processed[i] = startBlock + i - 1
  /\ \A n \in BagToSet(blockFetches) \cup BagToSet(pollTimers) :
       \A i \in 1..Len(processed) : processed[i] # n

\* two blocks were handled, with a null block or a failure on the way
C2_Witness ==
  /\ Len(processed) >= 2
  /\ polls > Len(processed)

\* C3: a step taken while running is false arms no timer: neither the bag of
\* poll timers nor the bag of retry timers gains an entry.
C3_NoTimerArmedWhenStopped ==
  [][running = FALSE =>
       /\ pollTimers' \sqsubseteq pollTimers
       /\ retryTimers' \sqsubseteq retryTimers]_vars

\* after stop() the fetches in flight completed and left no timer behind
C3_Witness ==
  /\ running = FALSE
  /\ startPc = "done"
  /\ polls >= 1
  /\ launches >= 1
  /\ stoppedFires = {}
  /\ blockFetches = EmptyBag /\ codeFetches = EmptyBag
  /\ pollTimers = EmptyBag /\ retryTimers = EmptyBag

\* C4 as stated: a timer that fires while running is false starts no block
\* fetch and no code fetch.
C4_FiredTimerIsDropped ==
  [][(running = FALSE /\ (pollTimers' # pollTimers \/ retryTimers' # retryTimers))
       => (blockFetches' = blockFetches /\ codeFetches' = codeFetches)]_vars

\* C4 amended: a timer that fires while running is false still runs its
\* handler: processBlock requests the timer's block, and processBytecode
\* requests the code when retries are left (with one retry less) and does
\* nothing when none is left.
C4_FiredTimerStillFetches ==
  [][running = FALSE =>
       /\ \A n \in BagToSet(pollTimers) :
            CopiesIn(n, pollTimers') < CopiesIn(n, pollTimers)
              => CopiesIn(n, blockFetches') = CopiesIn(n, blockFetches) + 1
       /\ \A t \in BagToSet(retryTimers) :
            CopiesIn(t, retryTimers') < CopiesIn(t, retryTimers)
              => IF t.retries > 0
                 THEN LET f == [addr |-> t.addr, retriesLeft |-> t.retries - 1]
                      IN  CopiesIn(f, codeFetches') = CopiesIn(f, codeFetches) + 1
                 ELSE codeFetches' = codeFetches]_vars

\* a poll timer fired after stop() and its getBlock request is in flight
C4_Witness ==
  /\ running = FALSE
  /\ "poll" \in stoppedFires
  /\ blockFetches # EmptyBag

(***************************************************************************)
(* Claims about checkFiles, checked under SpecVal.                         *)
(***************************************************************************)
Contracts == {vResult.checkedContracts[i] : i \in 1..Len(vResult.checkedContracts)}

\* C5: in every checked contract checkFiles returns, the keys of found,
\* missing and invalid are pairwise disjoint and together are the keys of
\* the manifest's sources.
C5_SourcesPartitioned ==
  \A c \in Contracts :
    LET found   == DOMAIN c.solidity
        missing == DOMAIN c.missing
        invalid == DOMAIN c.invalid
    IN  /\ found \cup missing \cup invalid = DOMAIN c.metadata.sources
        /\ found \cap missing = {}
        /\ found \cap invalid = {}
        /\ missing \cap invalid = {}

\* a contract with an empty inline source that is missing, beside a source
\* with a wrong inline digest
C5_Witness ==
  \E c \in Contracts :
    /\ DOMAIN c.metadata.sources = {"A.sol", "B.sol"}
    /\ c.metadata.sources["A.sol"].inline
    /\ c.metadata.sources["A.sol"].content = <<>>
    /\ "A.sol" \in DOMAIN c.missing
    /\ "B.sol" \in DOMAIN c.invalid

\* C6: every content under found hashes to the digest the manifest declares
\* for its path.
C6_FoundMatchesDigest ==
  \A c \in Contracts :
    \A sourcePath \in DOMAIN c.solidity :
      keccak256(c.solidity[sourcePath]) =
        c.metadata.sources[sourcePath].keccak256

\* a source found through the hash index whose content is a variation that
\* no provided file holds as it is
C6_Witness ==
  \E c \in Contracts :
    /\ "A.sol" \in DOMAIN c.solidity
    /\ ~c.metadata.sources["A.sol"].inline
    /\ \A i \in 1..Len(vFiles) :
         vFiles[i].buffer.content # c.solidity["A.sol"]

FoundAs(text) ==
  /\ vResult.error = NoError
  /\ Len(vResult.checkedContracts) = 1
  /\ vResult.checkedContracts[1].solidity = ("A.sol" :> text)

\* C7 as stated: for every text and every transform, a manifest that
\* declares the digest of the text and a provided file holding the
\* transformed text give found = {A.sol -> text}.
C7_EveryTransformFound ==
  vCase.family = "transformed" => FoundAs(vCase.text)

\* a text that is not empty, ends in no other trailing whitespace than at
\* most one line terminator, and whose line breaks are all LF or all CRLF
StableText(text) ==
  /\ text # <<>>
  /\ \/ text = TrimEnd(text)
     \/ text = TrimEnd(text) \o <<"LF">>
     \/ text = TrimEnd(text) \o <<"CR", "LF">>
  /\ \/ ToLF(text) = text
     \/ ToCRLF(ToLF(text)) = text

\* C7 amended: the same for the texts that are not empty, have uniform line
\* breaks and at most one trailing line terminator.
C7_StableTextFound ==
  (vCase.family = "transformed" /\ StableText(vCase.text))
    => FoundAs(vCase.text)

\* a text with an inner line break, provided with other line breaks, is found
C7_Witness ==
  /\ vCase.family = "transformed"
  /\ StableText(vCase.text)
  /\ Len(TrimEnd(vCase.text)) > 1
  /\ Transform(vCase.t, vCase.text) # vCase.text
  /\ ToLF(Transform(vCase.t, vCase.text)) # Transform(vCase.t, vCase.text)
  /\ FoundAs(vCase.text)

\* the manifests the recognizer finds in one blob: those a build-info bundle
\* carries, or the blob itself (plain, double-encoded or nested)
RecognizedGenerally(file) ==
  LET first == extractMetadataFromString(file.doc)
  IN  IF first # Null THEN first
      ELSE IF file.nested # NoMatch
           THEN extractMetadataFromString(file.nested.doc)
           ELSE Null

RecognizedIn(file) ==
  IF file.hardhat
  THEN SelectSeq(extractHardhatMetadataAndSources(file).hardhatMetadataFiles,
                 LAMBDA m : m # Null)
  ELSE IF RecognizedGenerally(file) # Null THEN <<RecognizedGenerally(file)>>
  ELSE <<>>

RECURSIVE RecognizedFrom(_, _)
RecognizedFrom(files, i) ==
  IF i > Len(files) THEN <<>>
  ELSE RecognizedIn(files[i]) \o RecognizedFrom(files, i + 1)

\* the recognized manifests of the expanded bag, in the order of the bag
RecognizedManifests == RecognizedFrom(ParseFiles(vResult.files), 1)

Expanded == vResult.error \notin {NotCalledYet, UnzipError}

\* C8: when no blob of the expanded bag is recognized as a manifest,
\* checkFiles fails with the 'metadata not found' error and returns nothing;
\* when it returns, it returns one checked contract per recognized manifest,
\* in their order.
C8_NotFoundOrOnePerManifest ==
  Expanded =>
    /\ RecognizedManifests = <<>> =>
         (vResult.error = MetadataNotFound /\ vResult.checkedContracts = <<>>)
    /\ vResult.error = NoError =>
         /\ Len(vResult.checkedContracts) = Len(RecognizedManifests)
         /\ \A i \in 1..Len(RecognizedManifests) :
              vResult.checkedContracts[i].metadata = RecognizedManifests[i]

\* the blobs of the expanded bag that general recognition records as malformed
Discarded ==
  {i \in 1..Len(vResult.files) :
     LET file == ToPathContent(vResult.files[i])
     IN  /\ ~file.hardhat
         /\ RecognizedGenerally(file) # Null
         /\ RecognizedGenerally(file).target # 1}

\* the blobs of the expanded bag that general recognition keeps
Kept ==
  {i \in 1..Len(vResult.files) :
     LET file == ToPathContent(vResult.files[i])
     IN  /\ ~file.hardhat
         /\ RecognizedGenerally(file) # Null
         /\ RecognizedGenerally(file).target = 1}

\* a build-info bundle of the expanded bag cannot be read
BundleRaises ==
  \E i \in 1..Len(vResult.files) :
    /\ vResult.files[i].buffer.hardhat
    /\ extractHardhatMetadataAndSources(ToPathContent(vResult.files[i])).threw

\* C9 as stated: a recognized manifest without exactly one compilation target
\* is discarded; checkFiles fails with the malformed-manifest error when every
\* recognized manifest was discarded, and returns the contracts of the
\* remaining manifests when a well-formed one remains.
C9_ReturnsTheRemaining ==
  (Expanded /\ ~BundleRaises /\ Discarded # {}) =>
    IF Kept = {}
    THEN vResult.error = MalformedMetadata
    ELSE /\ vResult.error = NoError
         /\ \A c \in Contracts : c.metadata.target = 1

\* C9 amended: a manifest that general recognition finds without exactly one
\* compilation target is discarded, and as soon as one manifest was
\* discarded checkFiles fails and returns no checked contract, also when
\* well-formed manifests remain; the error is the malformed-manifest error
\* unless reading a build-info bundle raised before.
C9_AnyDiscardedFails ==
  (Expanded /\ Discarded # {}) =>
    /\ vResult.checkedContracts = <<>>
    /\ \/ vResult.error = MalformedMetadata
       \/ BundleRaises /\ vResult.error = BuildInfoError

\* a bag with a well-formed manifest and a discarded one has failed
C9_Witness ==
  /\ Expanded
  /\ Discarded # {}
  /\ Kept # {}
  /\ vResult.error = MalformedMetadata

\* C10: every manifest that reaches reconciliation is a recognized manifest
\* with exactly one compilation target: no contract is returned for another
\* one and reconciliation is never entered with a value that is no manifest.
C10_SingleTargetReconciled ==
  /\ \A c \in Contracts : c.metadata.target = 1
  /\ vResult.error # NullMetadataError

(***************************************************************************)
(* Claims about useAllSources and the unused sink, checked under SpecVal.  *)
(***************************************************************************)
\* the candidate sources useAllSources finds in the blobs it was given
UseCandidates ==
  splitFiles(ParseFiles(unzipFiles(vUse.blobs).files)).sourceFiles

UseKeys == {PathKey(UseCandidates[i], i - 1) : i \in 1..Len(UseCandidates)}

\* C11: when useAllSources returns, the keys of the returned source map are
\* the keys of the contract's found map together with the keys of the
\* candidate sources (the provided path, or path-<index> for a candidate
\* without one); every key of the found map keeps the verified content, also
\* when a candidate has the same key, and every other key maps to the content
\* of a candidate of that key.
C11_AllSourcesUnion ==
  vUse.error = NoError =>
    LET result == vUse.contract.solidity
        found  == vUse.input.solidity
    IN  /\ DOMAIN result = DOMAIN found \cup UseKeys
        /\ \A k \in DOMAIN found : result[k] = found[k]
        /\ \A k \in DOMAIN result \ DOMAIN found :
             \E i \in 1..Len(UseCandidates) :
               /\ PathKey(UseCandidates[i], i - 1) = k
               /\ UseCandidates[i].content = result[k]

\* useAllSources was given the blobs of the checkFiles call; a candidate has
\* the key of a found source with another content, and another candidate
\* brings a key of its own
C11_Witness ==
  /\ vUse.error = NoError
  /\ vUse.blobs = vFiles
  /\ \E k \in DOMAIN vUse.input.solidity :
       \E i \in 1..Len(UseCandidates) :
         /\ UseCandidates[i].path = k
         /\ UseCandidates[i].content # vUse.input.solidity[k]
  /\ UseKeys \ DOMAIN vUse.input.solidity # {}

\* the sources the manifest of a one-manifest bag declares
DeclaredByFirst == vFiles[1].buffer.doc.value.obj.sources

\* C12: for a bag that holds one manifest and nothing else, all of whose
\* sources carry inline content (the empty text included), checkFiles returns
\* one contract, and that contract has every declared source in found with
\* its inline content and nothing in missing and invalid exactly when every
\* inline content hashes to its declared keccak256.
C12_InlineOnlyIff ==
  (/\ vCase.family = "sources"
   /\ Len(vFiles) = 1
   /\ \A k \in DOMAIN DeclaredByFirst : DeclaredByFirst[k].inline)
  => /\ vResult.error = NoError
     /\ Len(vResult.checkedContracts) = 1
     /\ LET contract == vResult.checkedContracts[1]
        IN  (/\ contract.solidity =
                  [k \in DOMAIN DeclaredByFirst |-> DeclaredByFirst[k].content]
             /\ contract.missing = EmptyMap
             /\ contract.invalid = EmptyMap)
            <=> (\A k \in DOMAIN DeclaredByFirst :
                   keccak256(DeclaredByFirst[k].content)
                     = DeclaredByFirst[k].keccak256)

\* the candidate sources of the checkFiles call, read from the bag it left
CheckCandidates == splitFiles(ParseFiles(vResult.files)).sourceFiles

\* the provided paths reconciliation recorded for the sources of a manifest
\* that ended in found
ProvidedOfFound(metadata) ==
  LET r == rearrangeSources(metadata, storeByHash(CheckCandidates))
  IN  {r.metadata2provided[k] :
         k \in DOMAIN r.metadata2provided \cap DOMAIN r.foundSources}

Sink == {vResult.unused[i] : i \in 1..Len(vResult.unused)}

\* C13: when checkFiles returns, the unused sink holds paths of candidate
\* sources only, and the path of a candidate is in the sink exactly when it
\* is not the provided path recorded for a found source of some manifest.
C13_SinkIsUnmatched ==
  vResult.error = NoError =>
    /\ Sink \subseteq {CheckCandidates[i].path : i \in 1..Len(CheckCandidates)}
    /\ \A i \in 1..Len(CheckCandidates) :
         CheckCandidates[i].path \in Sink
           <=> (\A c \in Contracts :
                  CheckCandidates[i].path \notin ProvidedOfFound(c.metadata))

\* the hash index of the checkFiles call
CheckIndex == storeByHash(CheckCandidates)

\* C19: for every source that a manifest declares without inline content,
\* when the declared digest is a key of the hash index (also with the empty
\* text as the indexed content) the source is in found with the indexed
\* content and the provided path is recorded as used; the source is in
\* missing, with the declared digest and urls, only when the digest is not a
\* key of the index.
C19_IndexHitIsFound ==
  vResult.error = NoError =>
    \A c \in Contracts :
      \A k \in DOMAIN c.metadata.sources :
        LET info == c.metadata.sources[k]
        IN  ~info.inline =>
              /\ info.keccak256 \in DOMAIN CheckIndex =>
                   /\ k \in DOMAIN c.solidity
                   /\ c.solidity[k] = CheckIndex[info.keccak256].content
                   /\ CheckIndex[info.keccak256].path \notin Sink
              /\ k \in DOMAIN c.missing =>
                   /\ info.keccak256 \notin DOMAIN CheckIndex
                   /\ c.missing[k] = [keccak256 |-> info.keccak256,
                                      urls |-> info.urls]

\* the members of the archives among the blobs from index i on, in order
RECURSIVE MembersFrom(_, _)
MembersFrom(files, i) ==
  IF i > Len(files) THEN <<>>
  ELSE (IF isZip(files[i].buffer) THEN files[i].buffer.members ELSE <<>>)
       \o MembersFrom(files, i + 1)

\* C20: when the expansion of a checkFiles call completes, the array of blobs
\* holds the blobs without ZIP signature of the array it was given, in their
\* order, followed by the members of its archives with their paths, in the
\* order of the archives; no member is expanded, so a member that is an
\* archive stays in the array as a blob.
C20_SingleLevelExpansion ==
  Expanded =>
    vResult.files = SelectSeq(vFiles, LAMBDA f : ~isZip(f.buffer))
                      \o MembersFrom(vFiles, 1)

\* an archive stood before another blob, and one of its members is an
\* archive that is still in the array
C20_Witness ==
  /\ Expanded
  /\ \E i, j \in 1..Len(vFiles) :
       i < j /\ isZip(vFiles[i].buffer) /\ ~isZip(vFiles[j].buffer)
  /\ \E k \in 1..Len(vResult.files) : isZip(vResult.files[k].buffer)

(***************************************************************************)
(* Further claims about the chain monitor, checked under Spec.             *)
(***************************************************************************)
\* the retry timers a step arms
ArmedRetries ==
  {t \in BagToSet(retryTimers') :
     CopiesIn(t, retryTimers') > CopiesIn(t, retryTimers)}

\* the getCode requests a step issues
IssuedCodeFetches ==
  {f \in BagToSet(codeFetches') :
     CopiesIn(f, codeFetches') > CopiesIn(f, codeFetches)}

\* the budget of a launch: the request in flight that has r tries left is
\* request number INITIAL_GET_BYTECODE_TRIES - r of its launch, a retry is
\* armed with the tries the request had left, and a fired retry timer issues
\* a request with one try less, or nothing when no try is left
BudgetStep ==
  /\ codeRequests <= INITIAL_GET_BYTECODE_TRIES * launches
  /\ \A f \in BagToSet(codeFetches) :
       f.retriesLeft \in 0..(INITIAL_GET_BYTECODE_TRIES - 1)
  /\ \A t \in ArmedRetries :
       /\ running
       /\ [addr |-> t.addr, retriesLeft |-> t.retries] \in BagToSet(codeFetches)
       /\ codeFetches' = codeFetches
            (-) SetToBag({[addr |-> t.addr, retriesLeft |-> t.retries]})
  /\ \A t \in BagToSet(retryTimers) :
       CopiesIn(t, retryTimers') < CopiesIn(t, retryTimers) =>
         IF t.retries > 0
         THEN IssuedCodeFetches =
                {[addr |-> t.addr, retriesLeft |-> t.retries - 1]}
         ELSE codeFetches' = codeFetches /\ retryTimers' \sqsubseteq retryTimers

\* C14 as stated: the budget is kept, and once it is exhausted (the request
\* that came back empty had no try left) no timer is armed.
C14_GivesUpWithoutTimer ==
  [][BudgetStep /\ \A t \in ArmedRetries : t.retries > 0]_vars

\* C14 amended: the budget is kept, and the request that comes back empty
\* with no try left still arms one timer, whose handler returns without a
\* request and without a timer.
C14_BudgetWithLastTimer ==
  [][BudgetStep]_vars

\* all the requests of a launch came back empty and the last timer is pending
C14_Witness ==
  /\ launches = 1
  /\ codeRequests = INITIAL_GET_BYTECODE_TRIES
  /\ \E t \in BagToSet(retryTimers) : t.retries = 0

\* C15: when a getBlock request for block n completes, the poll timers gain
\* exactly one timer while running is true and none otherwise; the timer is
\* for n + 1 when the block was there and all its transactions were handled
\* (n is then appended to the handled blocks), and for n again when the
\* block was null, the request failed or a transaction raised.
C15_RetrySameBlock ==
  [][\A n \in BagToSet(blockFetches) :
       CopiesIn(n, blockFetches') < CopiesIn(n, blockFetches) =>
         LET advanced == processed' # processed
             next     == IF advanced THEN n + 1 ELSE n
         IN  /\ advanced => processed' = Append(processed, n)
             /\ blockFetches' = blockFetches (-) SetToBag({n})
             /\ pollTimers' = IF running
                              THEN pollTimers (+) SetToBag({next})
                              ELSE pollTimers]_vars

\* two requests for the first block completed without it being handled, and
\* the timer that is pending is for the first block again
C15_Witness ==
  /\ running
  /\ polls >= 2
  /\ processed = <<>>
  /\ blockFetches = EmptyBag
  /\ pollTimers = SetToBag({startBlock})
\* ---------------------------------------------------------------------
\* Liveness of the poll loop, checked under SpecLive
\* ---------------------------------------------------------------------

\* the model follows the monitor for MaxRequests requests
RequestsSpent == polls + codeRequests >= MaxRequests

\* C16: while running stays true every iteration of processBlock is followed
\* by another one (a block request in flight leads to a pending poll timer,
\* a pending poll timer leads to the next block request), and, blocks being
\* delivered in the end, the number of handled blocks grows: nulls, failed
\* requests and throws while handling a block do not end the loop.
C16_LoopGoesOn ==
  /\ (blockFetches # EmptyBag) ~> (pollTimers # EmptyBag)
  /\ (pollTimers # EmptyBag) ~> (blockFetches # EmptyBag \/ RequestsSpent)
  /\ \A k \in 0..MaxRequests :
       (running /\ pollTimers # EmptyBag /\ Len(processed) = k)
         ~> (Len(processed) > k \/ RequestsSpent)

\* two requests of the loop ended in a null, a failure or a throw, a block
\* was handled all the same and the next timer is pending
C16_Witness ==
  /\ running
  /\ Len(processed) >= 1
  /\ polls >= Len(processed) + 2
  /\ blockFetches = EmptyBag
  /\ pollTimers # EmptyBag
  /\ stoppedFires = {}

\* ---------------------------------------------------------------------
\* start(), checked under Spec
\* ---------------------------------------------------------------------

\* the step in which start() latches an endpoint
Latches == web3provider' # web3provider

\* C17: start() probes the endpoints in the order of web3urls, passing on
\* only after a failed probe; the first endpoint whose getBlockNumber
\* resolves is latched and start() is over, so no later endpoint is probed
\* and nothing is latched again; in that same step the one first block
\* request is issued, for the MONITOR_START override when there is one and
\* for the probed head otherwise; and as long as nothing is latched, all
\* probes having failed included, no block is requested and no timer armed.
C17_LatchFirstWorking ==
  /\ [](web3provider = 0 =>
          /\ polls = 0
          /\ blockFetches = EmptyBag
          /\ pollTimers = EmptyBag
          /\ startBlock = -1)
  /\ [](web3provider # 0 =>
          /\ startPc = "done"
          /\ probeIx = web3provider
          /\ polls >= 1
          /\ rawStartBlock # NoOverride => startBlock = rawStartBlock
          /\ rawStartBlock = NoOverride => startBlock \in HeadNumbers)
  /\ [][/\ probeIx' # probeIx =>
            /\ startPc = "probing"
            /\ web3provider' = 0
            /\ probeIx' = probeIx + 1
            /\ polls' = polls
        /\ startPc = "done" => startPc' = "done" /\ probeIx' = probeIx
        /\ startBlock' # startBlock => Latches
        /\ Latches =>
            /\ web3provider = 0
            /\ startPc = "probing"
            /\ web3provider' = probeIx
            /\ polls = 0 /\ polls' = 1
            /\ blockFetches' = SetToBag({startBlock'})
            /\ pollTimers' = EmptyBag]_vars

\* the first endpoint failed, the second is latched, and the loop started
\* from the override went on to a second request
C17_Witness ==
  /\ web3provider = 2
  /\ startPc = "done"
  /\ rawStartBlock # NoOverride
  /\ startBlock = rawStartBlock
  /\ polls >= 2

\* ---------------------------------------------------------------------
\* The closed form of the pause, checked under SpecPause
\* ---------------------------------------------------------------------

\* clamp(x, [lower, upper])
Clamp(x) == Max(Min(x, UpperLimit), LowerLimit)

\* initial x factor^n, in the fixed point of the model
RECURSIVE Scaled(_, _)
Scaled(initial, n) ==
  IF n = 0 THEN initial ELSE (Scaled(initial, n - 1) * FactorNum) \div FactorDen

\* C18: after N null blocks in a row getBlockPause is
\* clamp(initial x factor^N, [lower, upper]), for every initial pause and
\* every N, and after the block that follows them it is
\* clamp(previous / factor, [lower, upper]).
C18_ClosedForm ==
  /\ adaptPrevious = -1 => adaptPause = Clamp(Scaled(adaptInitial, adaptNulls))
  /\ adaptPrevious # -1 =>
       /\ adaptPrevious = Clamp(Scaled(adaptInitial, adaptNulls))
       /\ adaptPause = Clamp((adaptPrevious * FactorDen) \div FactorNum)

\* the same for a monitor whose initial pause is within the limits
ClosedFormWithinLimits ==
  (LowerLimit <= adaptInitial /\ adaptInitial <= UpperLimit) => C18_ClosedForm

\* the same from the first null block on, for initial pauses not below the
\* lower limit
ClosedFormFromAbove ==
  (LowerLimit <= adaptInitial /\ adaptNulls >= 1) => C18_ClosedForm

\* ---------------------------------------------------------------------
\* The bytecode pipeline, checked under Spec
\* ---------------------------------------------------------------------

\* the launches that are somewhere in the pipeline or were injected
LaunchesAlive ==
  BagCardinality(retryTimers) + BagCardinality(codeFetches)
    + BagCardinality(assembling) + BagCardinality(injected)

\* C21: inject is called for an address only when the source fetcher
\* delivers a contract for it, and an address is handed to the source
\* fetcher only when a getCode request for it resolves with bytecode whose
\* trailer decodes; when the trailer does not decode the request is over
\* and nothing else happens: no source fetch, no retry timer, no inject for
\* that launch (every launch is at one place of the pipeline at most), and
\* the poll loop is left as it is.
C21_InjectAfterDecodedFetch ==
  /\ [](LaunchesAlive <= launches)
  /\ [][/\ \A a \in BagToSet(injected') :
            CopiesIn(a, injected') > CopiesIn(a, injected) =>
              /\ CopiesIn(a, assembling) > 0
              /\ assembling' = assembling (-) SetToBag({a})
              /\ injected' = injected (+) SetToBag({a})
        /\ \A a \in BagToSet(assembling') :
            CopiesIn(a, assembling') > CopiesIn(a, assembling) =>
              /\ \E f \in BagToSet(codeFetches) :
                   /\ f.addr = a
                   /\ codeFetches' = codeFetches (-) SetToBag({f})
              /\ assembling' = assembling (+) SetToBag({a})
              /\ retryTimers' = retryTimers
        /\ CodeUndecodable =>
              /\ BagCardinality(codeFetches') = BagCardinality(codeFetches) - 1
              /\ assembling' = assembling
              /\ retryTimers' = retryTimers
              /\ injected' = injected
              /\ LaunchesAlive' = LaunchesAlive - 1
              /\ UNCHANGED <<running, getBlockPause, pollTimers, blockFetches,
                             processed, polls>>]_vars

\* of two launches one was injected and the other ended at a trailer that
\* did not decode: the monitor is running, no retry is pending
C21_Witness ==
  /\ running
  /\ launches = 2
  /\ codeRequests = 2
  /\ BagCardinality(injected) = 1
  /\ assembling = EmptyBag
  /\ codeFetches = EmptyBag
  /\ retryTimers = EmptyBag
  /\ stoppedFires = {}

\* ---------------------------------------------------------------------
\* Repeated start(), checked under SpecRestart
\* ---------------------------------------------------------------------

\* C22: whatever the sequence of start() and stop() calls and of timer
\* firings, the pending poll timers and the block requests in flight are
\* never more than one together: there is one poll loop at most.
C22_OnePollLoop ==
  BagCardinality(pollTimers) + BagCardinality(blockFetches) <= 1

\* ---------------------------------------------------------------------
\* Launches per contract creation, checked under Spec
\* ---------------------------------------------------------------------

\* the entries of a bag of requests or timers that are for one address
ForAddress(bag, a) ==
  LET S == {e \in BagToSet(bag) : e.addr = a}
  IN  [e \in S |-> CopiesIn(e, bag)]

\* the launches for one address that are in the pipeline or were injected
AliveFor(a) ==
  BagCardinality(ForAddress(retryTimers, a))
    + BagCardinality(ForAddress(codeFetches, a))
    + CopiesIn(a, assembling) + CopiesIn(a, injected)

\* the addresses of the contract creations of the blocks requested so far
CreatedAddresses ==
  {e.addr : e \in BagToSet(retryTimers) \cup BagToSet(codeFetches)}
    \cup BagToSet(assembling) \cup BagToSet(injected)

\* C23: a contract-creating transaction is launched once at most, also when
\* a later transaction of its block raises and the block is requested
\* again: no address has two launches in the pipeline.
C23_OneLaunchPerCreation ==
  \A a \in CreatedAddresses : AliveFor(a) <= 1

\* ---------------------------------------------------------------------
\* The frame of useAllSources and its failures, checked under SpecVal
\* ---------------------------------------------------------------------

\* useAllSources was called and could expand its blobs
UseExpanded == vUse.error \notin {NotCalledYet, UnzipError}

\* the manifests recognized in the expanded blobs of the useAllSources call
UseRecognized == RecognizedFrom(ParseFiles(vUse.files), 1)

\* none of them has exactly one compilation target
NoWellFormedManifest ==
  \A i \in 1..Len(UseRecognized) : UseRecognized[i].target # 1

\* what useAllSources leaves alone
UseFrame ==
  (UseExpanded /\ vUse.error = NoError) =>
    /\ vUse.contract.metadata = vUse.input.metadata
    /\ vUse.contract.missing = vUse.input.missing
    /\ vUse.contract.invalid = vUse.input.invalid
    /\ vUse.argument = vUse.input

\* C24: the contract useAllSources returns has the metadata, the missing and
\* the invalid partition of the one it was given, the found map of the given
\* contract is as it was; and when the expanded blobs hold no manifest with
\* one compilation target the call fails as checkFiles does on those blobs,
\* with the manifest-not-found or the malformed-manifest error.
C24_FrameAndSameFailure ==
  /\ UseFrame
  /\ (UseExpanded /\ NoWellFormedManifest) =>
       /\ vUse.error \in {MetadataNotFound, MalformedMetadata}
       /\ vUse.error = checkFiles(vUse.blobs).error
       /\ vUse.argument = vUse.input

\* the failure of C24 for blobs without a build-info bundle
SameFailureWithoutBundles ==
  (\A i \in 1..Len(vUse.files) : ~vUse.files[i].buffer.hardhat)
    => C24_FrameAndSameFailure

====
